---- MODULE Spec2Model ----
(***************************************************************************)
(* Model of the VideoPreview component (src/unnamed/part_009).             *)
(*                                                                         *)
(* Export pipeline: the async handleExport function, its cleanup closure,  *)
(* the abort listener, the MediaRecorder and export audio event handlers,  *)
(* the syncRenderLoop frame callback, handleCancelExport and the two       *)
(* pieces of React state (isExporting, exportAbortController).             *)
(*                                                                         *)
(* Preview: the <audio> element behind audioRef, the main animation effect *)
(* (renderLoop, startRenderLoop, stopRenderLoop, its listeners and its     *)
(* cleanup), togglePlay and handleSeek.                                    *)
(*                                                                         *)
(* Frame compositor: drawFrame's scene lookup, crossfade test and alpha,   *)
(* lyric lookup, the state it leaves the 2D context in, the decode state   *)
(* of the images and the arithmetic of drawKenBurns (exact fractions), as  *)
(* functions of the timeline and the time of the frame.                    *)
(*                                                                         *)
(* Lyric layer: the word wrap of the active line on the player's canvas    *)
(* and on an export canvas, the word-wrap cache handed to drawFrame, and   *)
(* the memos and drawFrame on props whose lists or words are undefined.    *)
(*                                                                         *)
(* Download: the format probe of handleExport and the file name that       *)
(* recorder.onstop gives the download.                                     *)
(*                                                                         *)
(* React state is kept twice: `state` is the value of the latest setState  *)
(* call, `rendered` is the value the last render committed, which is what  *)
(* the closures handleExport / handleCancelExport and the buttons see.     *)
(* Updates made inside a click handler are flushed before the next event   *)
(* (React flushes discrete-event updates synchronously); updates made from *)
(* media events or promise continuations are committed by a later Render.  *)
(***************************************************************************)
EXTENDS Integers, FiniteSets, Sequences, TLC

\* ---------------------------------------------------------------- bounds
\* number of export jobs (calls of handleExport that pass the guard) under
\* the full environment (Spec)
MaxJobs == 1
\* number of export jobs under the failure-free environment (RaceSpec)
RaceJobs == 3
\* duration of the export audio, in whole seconds of media time
Duration == 1
\* number of clicks on "Cancel Export" followed per abort controller
MaxCancelClicks == 1
\* number of instants of the wall clock after the page opened
MaxClock == 1
\* number of words of the text of a lyric line
MaxTextWords == 4

\* duration of the player's audio, in whole seconds of media time
PreviewDuration == 2
\* number of media events of the player's audio queued and not yet delivered
MaxQueued == 2
\* number of scenes, of lyric lines, and of words of a line in a drawn timeline
MaxScenes == 3
MaxLines == 2
MaxWords == 2

Jobs == 1..(IF MaxJobs > RaceJobs THEN MaxJobs ELSE RaceJobs)

\* mime types probed by handleExport, in the order of the probes
Formats == <<"mp4", "webm-vp9", "webm">>

VARIABLES
    state,      \* React state after the latest setIsExporting / setExportAbortController
    rendered,   \* React state committed by the last render (seen by closures and buttons)
    jobs,       \* per call of handleExport: its locals and the objects it allocated
    started,    \* number of calls of handleExport that passed the isExporting guard
    clock,      \* the wall clock Date.now() reads
    surfaces,   \* per canvas (0: canvasRef, j: exportCanvas of job j) the frame
                \* drawn on it and the word-wrap cache handed to drawFrame with it
    preview,    \* the <audio> element of the player and the refs of the animation effect
    videoData,  \* the props: title, backgroundScenes and syncedLyrics
    complete,   \* per scene, whether its image is decoded (image.complete and
                \* naturalWidth > 0)
    frame,      \* what the last call of drawFrame drew, and the state it left
                \* the 2D context in
    kenBurns,   \* the size of the canvas and of each scene's image, and the
                \* arithmetic of each drawKenBurns call of the last frame
    wrap,       \* the text of the active lyric line and, per canvas, the
                \* lines drawFrame wrapped it into
    malformed   \* which fields of the props are undefined, and whether a
                \* TypeError was thrown

\* the export pipeline's own variables
exportVars == <<state, rendered, jobs, started, clock>>

\* the player's own variables
previewVars == <<preview>>

\* the timeline and the compositor's answer
drawVars == <<videoData, complete, frame, kenBurns, wrap, malformed>>

vars == <<state, rendered, jobs, started, clock, surfaces, preview, videoData,
          complete, frame, kenBurns, wrap, malformed>>

\* ------------------------------------------------- timeline and compositor
\* const FADE_DURATION_MS = 1000;
FADE_DURATION_MS == 1000

\* A scene is its startTime in ms (its image is its place in the list); a lyric
\* line is [startTime, words], words being the list of the words' startTime.
\* A line without a words property is the line with no words: drawFrame
\* treats both alike (`line.words && line.words.length > 0`).
Line(startTime, words) == [startTime |-> startTime, words |-> words]

\* backgroundImages = backgroundScenes.map(...): same scenes, same order
backgroundImages(data) == data.backgroundScenes

\* [...syncedLyrics].sort((a, b) => a.startTime - b.startTime), a stable sort:
\* insert line x behind the lines of sorted list l that do not start later
RECURSIVE InsertSorted(_, _)
InsertSorted(l, x) ==
    IF l = <<>> THEN <<x>>
    ELSE IF x.startTime < Head(l).startTime THEN <<x>> \o l
    ELSE <<Head(l)>> \o InsertSorted(Tail(l), x)

RECURSIVE SortByStartTime(_)
SortByStartTime(l) ==
    IF l = <<>> THEN <<>>
    ELSE InsertSorted(SortByStartTime(SubSeq(l, 1, Len(l) - 1)), l[Len(l)])

sortedLyrics(data) == SortByStartTime(data.syncedLyrics)

\* backgroundImages.findIndex(...) from index i on: the first scene that has
\* started and whose successor, if any, has not; 0 stands for -1, scenes are
\* numbered from 1
RECURSIVE FindSceneFrom(_, _, _)
FindSceneFrom(bg, t, i) ==
    IF i > Len(bg) THEN 0
    ELSE IF t >= bg[i] /\ (i = Len(bg) \/ t < bg[i + 1]) THEN i
    ELSE FindSceneFrom(bg, t, i + 1)

\* currentSceneIndex falling back to the last scene
currentSceneIndex_FallbackLast(bg, t) ==
    LET found == FindSceneFrom(bg, t, 1)
    IN  IF found = 0 /\ Len(bg) > 0 THEN Len(bg) ELSE found

\* let currentSceneIndex = findIndex(...); if (-1 && length > 0) index = 0
currentSceneIndex(bg, t) ==
    LET found == FindSceneFrom(bg, t, 1)
    IN  IF found = 0 /\ Len(bg) > 0 THEN 1 ELSE found

\* the crossfade branch: nextScene exists and t is inside its fade window
crossfade(bg, t) ==
    LET i == currentSceneIndex(bg, t)
    IN  /\ i # 0
        /\ i < Len(bg)
        /\ t > bg[i + 1] - FADE_DURATION_MS

Max(a, b) == IF a >= b THEN a ELSE b

\* Math.max(...line.words.map(w => w.startTime))
RECURSIVE maxWordTime(_)
maxWordTime(words) ==
    IF Len(words) = 1 THEN words[1]
    ELSE Max(words[1], maxWordTime(Tail(words)))

\* endTime of line i without the cap at the next line's start
endTime_NoCap(lyrics, i) ==
    LET line == lyrics[i]
        n == Len(line.words)
    IN  IF n > 0
        THEN LET lineSpan == maxWordTime(line.words) - line.startTime
             IN  [num |-> maxWordTime(line.words) * n + Max(lineSpan, 500 * n),
                  den |-> n]
        ELSE IF i < Len(lyrics)
        THEN [num |-> lyrics[i + 1].startTime, den |-> 1]
        ELSE [num |-> line.startTime + 3000, den |-> 1]

\* endTime of line i of the sorted lyrics, as the exact fraction num / den:
\* maxWordTime + Math.max(lineSpan / words.length, 500), capped at the next
\* line's start; without words the next line's start, or startTime + 3000
endTime(lyrics, i) ==
    LET line == lyrics[i]
        n == Len(line.words)
    IN  IF n > 0
        THEN LET lineSpan == maxWordTime(line.words) - line.startTime
                 num == maxWordTime(line.words) * n + Max(lineSpan, 500 * n)
             IN  IF i < Len(lyrics) /\ num > lyrics[i + 1].startTime * n
                 THEN [num |-> lyrics[i + 1].startTime, den |-> 1]
                 ELSE [num |-> num, den |-> n]
        ELSE IF i < Len(lyrics)
        THEN [num |-> lyrics[i + 1].startTime, den |-> 1]
        ELSE [num |-> line.startTime + 3000, den |-> 1]

\* effectiveTimeMs < endTime
Before(t, end) == t * end.den < end.num

\* endTime <= t
NotBefore(t, end) == end.num <= t * end.den

\* the lyric loop from line i on, without the test on the line's start
RECURSIVE FindLyricFrom_NoStartTest(_, _, _)
FindLyricFrom_NoStartTest(lyrics, t, i) ==
    IF i > Len(lyrics) THEN 0
    ELSE IF Before(t, endTime(lyrics, i)) THEN i
    ELSE FindLyricFrom_NoStartTest(lyrics, t, i + 1)

\* the lyric loop from line i on: the first line with
\* startTime <= effectiveTimeMs < endTime; 0 stands for null
RECURSIVE FindLyricFrom(_, _, _)
FindLyricFrom(lyrics, t, i) ==
    IF i > Len(lyrics) THEN 0
    ELSE IF lyrics[i].startTime <= t /\ Before(t, endTime(lyrics, i)) THEN i
    ELSE FindLyricFrom(lyrics, t, i + 1)

\* currentLyric, as the place of the line in the sorted lyrics
currentLyric(lyrics, t) == FindLyricFrom(lyrics, t, 1)

\* easeInOutCubic(t) = t < 0.5 ? 4 t^3 : 1 - (-2 t + 2)^3 / 2 at t = num / den,
\* as the numerator of the exact fraction over 2 den^3
easeInOutCubic(num, den) ==
    IF 2 * num < den
    THEN 8 * num * num * num
    ELSE 2 * den * den * den
           - (2 * den - 2 * num) * (2 * den - 2 * num) * (2 * den - 2 * num)

\* opacities are fractions over EaseDen; 1.0 is EaseDen
EaseDen == 2 * FADE_DURATION_MS * FADE_DURATION_MS * FADE_DURATION_MS

Min(a, b) == IF a <= b THEN a ELSE b

\* the alpha of a fade that runs backwards
fadeAlpha_FadeOut(t, nextStartTime) ==
    EaseDen - Min(easeInOutCubic(t - (nextStartTime - FADE_DURATION_MS),
                                 FADE_DURATION_MS), EaseDen)

\* fadeProgress = (currentTimeMs - (nextScene.startTime - FADE_DURATION_MS))
\*                / FADE_DURATION_MS;  Math.min(easeInOutCubic(fadeProgress), 1.0)
fadeAlpha(t, nextStartTime) ==
    Min(easeInOutCubic(t - (nextStartTime - FADE_DURATION_MS), FADE_DURATION_MS),
        EaseDen)

\* a 2D context as getContext('2d') returns it: the attributes drawFrame sets
\* and does not set again before every use
FreshContext == [globalAlpha |-> EaseDen, textAlign |-> "start"]

\* ctx.globalAlpha = a: a value outside [0, 1] is ignored
setGlobalAlpha(context, a) ==
    IF a >= 0 /\ a <= EaseDen THEN [context EXCEPT !.globalAlpha = a] ELSE context

\* drawKenBurns drawing whatever the state of the image
drawKenBurns_NoGuard(context, loaded, i) ==
    <<[image |-> i, globalAlpha |-> context.globalAlpha]>>

\* drawKenBurns(image, ...): the drawImage call it makes, none when the image
\* is not decoded (`if (!image.complete || image.naturalWidth === 0) return`)
drawKenBurns(context, loaded, i) ==
    IF loaded[i] THEN <<[image |-> i, globalAlpha |-> context.globalAlpha]>>
    ELSE <<>>

\* the crossfade branch without its final ctx.globalAlpha = 1.0
crossfadeContext_NoReset(context, t, nextStartTime) ==
    setGlobalAlpha(context, fadeAlpha(t, nextStartTime))

\* the context the crossfade branch leaves: ctx.globalAlpha = 1.0
crossfadeContext(context, t, nextStartTime) ==
    [setGlobalAlpha(context, fadeAlpha(t, nextStartTime)) EXCEPT !.globalAlpha = EaseDen]

\* drawFrame(ctx, canvas, currentTimeMs, durationSeconds, backgroundImages,
\* syncedLyrics, wrappedLinesCache) on a context in state `context`, with
\* loaded[i] telling whether the image of scene i is decoded: the scene and
\* lyric it selects, the drawImage calls it makes with the globalAlpha of
\* each, the alpha of the crossfade (0 without crossfade), and the state it
\* leaves the context in
drawFrame(context, bg, loaded, lyrics, currentTimeMs) ==
    LET i == currentSceneIndex(bg, currentTimeMs)
        fading == crossfade(bg, currentTimeMs)
        faded == IF fading
                 THEN setGlobalAlpha(context, fadeAlpha(currentTimeMs, bg[i + 1]))
                 ELSE context
        after == IF fading
                 THEN crossfadeContext(context, currentTimeMs, bg[i + 1])
                 ELSE context
        lyric == currentLyric(lyrics, currentTimeMs)
    IN  [ timeMs    |-> currentTimeMs,
          scene     |-> i,
          crossfade |-> fading,
          alpha     |-> IF fading THEN fadeAlpha(currentTimeMs, bg[i + 1]) ELSE 0,
          images    |-> (IF i # 0 THEN drawKenBurns(context, loaded, i) ELSE <<>>)
                        \o (IF fading THEN drawKenBurns(faded, loaded, i + 1)
                            ELSE <<>>),
          lyric     |-> lyric,
          context   |-> IF lyric # 0 THEN [after EXCEPT !.textAlign = "center"]
                        ELSE after ]

\* a frame was drawn
Drawn == frame.timeMs >= 0

\* no frame drawn yet, on a fresh context
NoFrame ==
    [timeMs |-> -1, scene |-> 0, crossfade |-> FALSE, alpha |-> 0, images |-> <<>>,
     lyric |-> 0, context |-> FreshContext]

\* ---- exact fractions <<numerator, denominator>> in lowest terms, denominator > 0
Abs(n) == IF n < 0 THEN -n ELSE n

RECURSIVE GCD(_, _)
GCD(a, b) == IF b = 0 THEN a ELSE GCD(b, a % b)

Frac(n, d) ==
    LET g == GCD(Abs(n), Abs(d))
        sgn == IF d < 0 THEN -1 ELSE 1
    IN  <<sgn * (n \div g), sgn * (d \div g)>>

Whole(n) == <<n, 1>>

FAdd(a, b) ==
    LET g == GCD(a[2], b[2])
    IN  Frac(a[1] * (b[2] \div g) + b[1] * (a[2] \div g), a[2] * (b[2] \div g))

FNeg(a) == <<-a[1], a[2]>>

FSub(a, b) == FAdd(a, FNeg(b))

FMul(a, b) ==
    LET g1 == GCD(Abs(a[1]), b[2])
        g2 == GCD(Abs(b[1]), a[2])
    IN  Frac((a[1] \div g1) * (b[1] \div g2), (a[2] \div g2) * (b[2] \div g1))

FDiv(a, b) == FMul(a, Frac(b[2], b[1]))

FLeq(a, b) == FSub(a, b)[1] <= 0

FLess(a, b) == FSub(a, b)[1] < 0

\* audio.duration, the durationSeconds handed to drawFrame
durationSeconds == 3

\* canvas.width and canvas.height: the player's canvas and the export canvas
Canvases == {<<1280, 720>>, <<1920, 1080>>}

\* sceneEndTime = nextScene ? nextScene.startTime : durationSeconds * 1000
sceneEndTime(bg, i) ==
    IF i < Len(bg) THEN bg[i + 1] ELSE durationSeconds * 1000

\* the arithmetic of drawKenBurns(image, sceneStartTime, sceneEndTime) at
\* currentTimeMs for a decoded image of size natural on a canvas of size
\* canvas, up to the source rectangle it hands to drawImage
drawImageArgs(natural, canvas, currentTimeMs, sceneStartTime, sceneEnd) ==
    LET sceneDuration == sceneEnd - sceneStartTime
        timeInScene == currentTimeMs - sceneStartTime
        progress == IF sceneDuration > 0
                    THEN IF timeInScene <= sceneDuration
                         THEN Frac(timeInScene, sceneDuration) ELSE Whole(1)
                    ELSE Whole(0)
        easedProgress == Frac(easeInOutCubic(progress[1], progress[2]),
                              2 * progress[2] * progress[2] * progress[2])
        scale == FAdd(Whole(1), FMul(Frac(1, 10), easedProgress))
        panX == FSub(Frac(1, 2), FMul(Frac(1, 20), easedProgress))
        panY == FSub(Frac(1, 2), FMul(Frac(1, 20), easedProgress))
        naturalWidth == Whole(natural[1])
        naturalHeight == Whole(natural[2])
        imgRatio == Frac(natural[1], natural[2])
        canvasRatio == Frac(canvas[1], canvas[2])
        sWidth == IF FLess(canvasRatio, imgRatio)
                  THEN FMul(naturalHeight, canvasRatio) ELSE naturalWidth
        sHeight == IF FLess(canvasRatio, imgRatio)
                   THEN naturalHeight ELSE FDiv(naturalWidth, canvasRatio)
        focalWidth == FDiv(sWidth, scale)
        focalHeight == FDiv(sHeight, scale)
    IN  [ progress    |-> progress,
          scale       |-> scale,
          sx          |-> FAdd(FDiv(FSub(naturalWidth, sWidth), Whole(2)),
                               FMul(FSub(sWidth, focalWidth), panX)),
          sy          |-> FAdd(FDiv(FSub(naturalHeight, sHeight), Whole(2)),
                               FMul(FSub(sHeight, focalHeight), panY)),
          focalWidth  |-> focalWidth,
          focalHeight |-> focalHeight ]

\* no image sizes known, no drawKenBurns call made, on the player's canvas
NoKenBurns == [canvas |-> <<1280, 720>>, natural |-> <<>>, calls |-> <<>>]

\* Scenario A: scenes at 0 and 30000
ScenarioA == <<0, 30000>>

\* Scenario B: "Hello world" at 1000 with words at 1000 and 1400, next line at 5000
ScenarioB == <<Line(1000, <<1000, 1400>>), Line(5000, <<>>)>>

\* videoData.title of the scenarios
Title == "Hello world"

\* const [isExporting, setIsExporting] = useState(false);
\* const [exportAbortController, setExportAbortController] = useState(null);
\* exportAbortController is the number of the job that created it, 0 for null
InitialState == [isExporting |-> FALSE, exportAbortController |-> 0]

\* a.download before any download
NoName == [text |-> <<>>, stamp |-> 0, ext |-> "none"]

\* the locals of one handleExport call before it runs
NoJob ==
    [ pc            |-> "idle",     \* idle | awaitResume | awaitMetadata | returned
      formatOk      |-> FALSE,      \* an isTypeSupported probe succeeded
      supported     |-> {},         \* the mime types isTypeSupported accepted in the probes
      mimeType      |-> "none",     \* the mimeType handed to new MediaRecorder
      fileExtension |-> "none",     \* the extension chosen with it
      aborted       |-> FALSE,      \* abortController.signal.aborted
      abortListener |-> FALSE,      \* 'abort' listener registered on the signal
      ctx           |-> "none",     \* exportAudioContext: none | open | closed
      audio         |-> "none",     \* exportAudio: none | loading | ready | ended | error | empty
      inDom         |-> FALSE,      \* exportAudio.parentNode !== null
      paused        |-> TRUE,       \* exportAudio.paused
      muted         |-> FALSE,      \* exportAudio.muted (volume is 1.0)
      source        |-> FALSE,      \* createMediaElementSource(exportAudio) took the
                                    \* element's output into the audio graph
      speakers      |-> FALSE,      \* audioSource.connect(exportAudioContext.destination)
      time          |-> 0,          \* floor(exportAudio.currentTime)
      errorQueued   |-> FALSE,      \* 'error' event queued by exportAudio.src = ''
      handlers      |-> FALSE,      \* onloadedmetadata / onerror / onended assigned
      audioTrack    |-> FALSE,      \* an audio track was added to videoStream
      stream        |-> FALSE,      \* exportCanvas.captureStream() tracks are live
      recorder      |-> "none",     \* MediaRecorder: none | inactive | recording
      stopQueued    |-> FALSE,      \* recorder 'stop' event queued
      stops         |-> 0,          \* calls of recorder.stop()
      promise       |-> "none",     \* the awaited metadata promise: none | pending | resolved | rejected
      play          |-> "none",     \* exportAudio.play() promise: none | pending | settled
      raf           |-> FALSE,      \* requestAnimationFrame(syncRenderLoop) pending
      lastProgressUpdate |-> 0,
      progress      |-> [reported |-> FALSE, nan |-> FALSE, percent |-> 0],
                                    \* the progress of the last 'Exporting Video...' toast
      cleanups      |-> 0,          \* runs of cleanup()
      completes     |-> 0,          \* 'Export Complete!' toasts
      fails         |-> 0,          \* 'Export Failed' toasts
      cancels       |-> 0,          \* 'Export Cancelled' toasts
      warnings      |-> 0,          \* 'Warning' toasts
      downloads     |-> 0,          \* a.click() downloads
      download      |-> NoName,     \* a.download of the last download
      blobType      |-> "none",     \* the type of the Blob of the last download
      errors        |-> 0,          \* capture / audio errors raised once the metadata
                                    \* handler ran (recorder.start, play, recording)
      stateAtAbort  |-> "none" ]    \* recorder.state read by the abort listener, or
                                    \* "unheard" when the signal fired without listener

\* canvasRef.current, the canvas of the player; the export canvas of job j
\* is surface j
canvasRef == 0

\* a canvas nothing was drawn on (drawn: currentTime of the frame it shows, in
\* seconds), with an empty word-wrap cache
BlankSurface == [drawn |-> -1, cache |-> {}]

\* ---- the lyric text and its word wrap
\* the words currentLyric.line.split(' ') can give, by their number of
\* characters; the word of no character is what two spaces in a row leave
Words == {0, 2, 24, 51}

\* canvas.width of the player's canvas and of an export canvas
canvasWidth(canvas) == IF canvas = canvasRef THEN 1280 ELSE 1920

\* baseFontSize = canvas.width <= 1280 ? 44 : Math.round(canvas.width * 0.034)
FONT_SIZE(canvas) ==
    IF canvasWidth(canvas) <= 1280 THEN 44
    ELSE (canvasWidth(canvas) * 34 + 500) \div 1000

\* maxWidth = canvas.width * 0.85
maxWidth(canvas) == (canvasWidth(canvas) * 85) \div 100

\* the number of characters of the words of text joined by single spaces
RECURSIVE Characters(_)
Characters(text) ==
    IF text = <<>> THEN 0
    ELSE IF Len(text) = 1 THEN text[1]
    ELSE text[1] + 1 + Characters(Tail(text))

\* ctx.measureText(text).width in the bold font of the canvas: half the font
\* size per character
measureText(canvas, text) == (Characters(text) * FONT_SIZE(canvas)) \div 2

\* the string of the words of text joined by spaces is not the empty string
Truthy(text) == Characters(text) > 0

\* the loop without the push of the last line after it
RECURSIVE WrapFrom_NoLastPush(_, _, _, _, _)
WrapFrom_NoLastPush(canvas, words, k, lines, currentLine) ==
    IF k > Len(words)
    THEN lines
    ELSE LET word == words[k]
             testLine == IF Truthy(currentLine) THEN Append(currentLine, word)
                         ELSE <<word>>
         IN  IF measureText(canvas, testLine) > maxWidth(canvas)
                  /\ Truthy(currentLine)
             THEN WrapFrom_NoLastPush(canvas, words, k + 1,
                                      Append(lines, currentLine), <<word>>)
             ELSE WrapFrom_NoLastPush(canvas, words, k + 1, lines, testLine)

\* the loop `for (const word of words)` from word k on, with the lines pushed
\* so far and currentLine, followed by the push of the last line
RECURSIVE WrapFrom(_, _, _, _, _)
WrapFrom(canvas, words, k, lines, currentLine) ==
    IF k > Len(words)
    THEN IF Truthy(currentLine) THEN Append(lines, currentLine) ELSE lines
    ELSE LET word == words[k]
             testLine == IF Truthy(currentLine) THEN Append(currentLine, word)
                         ELSE <<word>>
         IN  IF measureText(canvas, testLine) > maxWidth(canvas)
                  /\ Truthy(currentLine)
             THEN WrapFrom(canvas, words, k + 1, Append(lines, currentLine), <<word>>)
             ELSE WrapFrom(canvas, words, k + 1, lines, testLine)

\* the lines drawFrame draws for the words of the active line
wrapLines(canvas, words) == WrapFrom(canvas, words, 1, <<>>, <<>>)

\* a word wrap that takes the lines from the cache when it holds the line
lyricLines_Cached(cache, canvas, words) ==
    IF \E e \in cache : e[1] = words
    THEN (CHOOSE e \in cache : e[1] = words)[2]
    ELSE wrapLines(canvas, words)

\* the lines of the lyric layer of drawFrame(ctx, canvas, ..., wrappedLinesCache):
\* the cache is a parameter the function does not use
lyricLines(cache, canvas, words) == wrapLines(canvas, words)

\* no lyric line drawn on any canvas
NoWrap ==
    [line |-> <<>>, drawnOn |-> {}, lines |-> [i \in {canvasRef} \cup Jobs |-> <<>>]]

\* ---- props with fields missing
\* every field of the props is there, nothing was thrown
WellFormed ==
    [backgroundScenes |-> FALSE, syncedLyrics |-> FALSE, words |-> {},
     thrown |-> FALSE]

\* the <audio> element of the player before it loaded, and the refs of the
\* animation effect after its first run: renderLoop() found the audio paused
InitialPreview ==
    [ paused    |-> TRUE,       \* audio.paused
      time      |-> 0,          \* audio.currentTime, in seconds
      loaded    |-> FALSE,      \* audio.readyState >= 2
      events    |-> <<>>,       \* 'play' / 'pause' / 'ended' events queued on the element
      ref       |-> 0,          \* animationFrameRef.current, 0 for undefined
      pending   |-> {} ]        \* ids of the requestAnimationFrame(renderLoop) callbacks pending

\* the state after construction, but for the timeline
InitComponent ==
    /\ state = InitialState
    /\ rendered = InitialState
    /\ jobs = [j \in Jobs |-> NoJob]
    /\ started = 0
    /\ clock = 0
    /\ surfaces = [i \in {canvasRef} \cup Jobs |-> BlankSurface]
    /\ preview = InitialPreview
    /\ frame = NoFrame

Init ==
    /\ InitComponent
    /\ videoData = [title |-> Title, backgroundScenes |-> ScenarioA,
                    syncedLyrics |-> ScenarioB]
    /\ complete = [i \in DOMAIN ScenarioA |-> TRUE]
    /\ kenBurns = NoKenBurns
    /\ wrap = NoWrap
    /\ malformed = WellFormed

\* ------------------------------------------------------------- cleanup
\* the two state setters at the end of cleanup()
CleanedState == [isExporting |-> FALSE, exportAbortController |-> 0]

\* exportAudio.src = '' : the element drops its resource, rewinds and queues
\* an 'error' event (HTML media element load algorithm with an empty src)
ClearSrc(r) ==
    [r EXCEPT !.audio = "empty", !.time = 0, !.errorQueued = TRUE]

\* cleanup(), the part that acts on the job's own objects
cleanup(r) ==
    LET closed == IF r.ctx = "open" THEN [r EXCEPT !.ctx = "closed"] ELSE r
        removed == IF closed.audio # "none" /\ closed.inDom
                   THEN [ClearSrc(closed) EXCEPT !.paused = TRUE, !.inDom = FALSE]
                   ELSE closed
    IN  [removed EXCEPT !.cleanups = @ + 1]

\* recorder.stop() called whatever the state of the recorder
StopIfRecording_NoGuard(r) ==
    [r EXCEPT !.recorder = "inactive", !.stopQueued = TRUE, !.stops = @ + 1]

\* recorder.stop() behind its guard `recorder.state === 'recording'`:
\* the state becomes inactive at once, the 'stop' event is delivered later
StopIfRecording(r) ==
    IF r.recorder = "recording"
    THEN [r EXCEPT !.recorder = "inactive", !.stopQueued = TRUE,
                   !.stops = @ + 1]
    ELSE r

\* the catch block of handleExport: toast 'Export Failed', then cleanup()
CatchBlock(r) ==
    cleanup([r EXCEPT !.fails = @ + 1, !.pc = "returned"])

\* reject(...) of the awaited promise: the await throws into the catch block;
\* on a settled promise it does nothing
Reject(r) ==
    IF r.promise = "pending"
    THEN CatchBlock([r EXCEPT !.promise = "rejected"])
    ELSE r

\* the React state after a handler that turned job record r into q
StateAfter(s, r, q) == IF q.cleanups > r.cleanups THEN CleanedState ELSE s

\* ---------------------------------------------------------- handleExport
\* a probe in the opposite order of preference
ProbeFormat_PlainFirst(supported) ==
    IF Formats[3] \in supported THEN Formats[3]
    ELSE IF Formats[2] \in supported THEN Formats[2]
    ELSE IF Formats[1] \in supported THEN Formats[1]
    ELSE "none"

\* isTypeSupported probes in order: the first supported format, or "none".
\* supported is the set of mime types MediaRecorder.isTypeSupported accepts.
ProbeFormat(supported) ==
    IF Formats[1] \in supported THEN Formats[1]
    ELSE IF Formats[2] \in supported THEN Formats[2]
    ELSE IF Formats[3] \in supported THEN Formats[3]
    ELSE "none"

\* the fileExtension assigned together with mimeType
fileExtension(mimeType) == IF mimeType = Formats[1] THEN "mp4" ELSE "webm"

\* the inner catch rethrowing into the catch block of handleExport
AudioSetupFailed_Fatal(r) ==
    CatchBlock([r EXCEPT !.warnings = @ + 1])

\* inner catch (audioError): toast 'Warning', the export goes on without audio
AudioSetupFailed(r) ==
    [r EXCEPT !.warnings = @ + 1]

\* from `new MediaRecorder` to the executor of the awaited promise: the
\* recorder is created (or its constructor throws into the catch block), the
\* abort listener and the recorder and audio handlers are installed
SetupRecorder(r, recorderOk) ==
    IF recorderOk
    THEN [r EXCEPT !.recorder = "inactive", !.abortListener = TRUE,
                   !.handlers = TRUE, !.promise = "pending",
                   !.pc = "awaitMetadata"]
    ELSE CatchBlock(r)

\* the synchronous part of handleExport, up to its first await (or its end)
StartJob(supported, canvasOk, audioContextOk, recorderOk) ==
    LET fmt == ProbeFormat(supported)
        r0 == [NoJob EXCEPT !.supported = supported]
        rf == [r0 EXCEPT !.formatOk = TRUE, !.mimeType = fmt,
                         !.fileExtension = fileExtension(fmt)]
        r1 == [rf EXCEPT !.audio = "loading", !.inDom = TRUE, !.stream = TRUE]
    IN  IF fmt = "none"
        THEN [r0 EXCEPT !.fails = @ + 1, !.pc = "returned"]
        ELSE IF ~canvasOk
        THEN CatchBlock(rf)
        ELSE IF audioContextOk
        THEN [r1 EXCEPT !.ctx = "open", !.pc = "awaitResume"]
        ELSE SetupRecorder(AudioSetupFailed(r1), recorderOk)

\* click on "Export Video": the button is enabled and the closure passes its
\* guard only while the rendered isExporting is false
HandleExport(supported, canvasOk, audioContextOk, recorderOk) ==
    /\ ~rendered.isExporting
    /\ started + 1 \in Jobs
    /\ LET j == started + 1
           q == StartJob(supported, canvasOk, audioContextOk, recorderOk)
           s == StateAfter([isExporting |-> TRUE, exportAbortController |-> j],
                           NoJob, q)
       IN  /\ jobs' = [jobs EXCEPT ![j] = q]
           /\ state' = s
           /\ rendered' = s
    /\ started' = started + 1
    /\ UNCHANGED <<surfaces, previewVars, drawVars, clock>>

\* the continuation after `await exportAudioContext.resume()`
ResumeSettled(j, audioOk, recorderOk) ==
    /\ jobs[j].pc = "awaitResume"
    /\ LET r == jobs[j]
           a == IF audioOk
                THEN [r EXCEPT !.source = TRUE, !.speakers = TRUE,
                               !.audioTrack = TRUE]
                ELSE AudioSetupFailed(r)
           q == SetupRecorder(a, recorderOk)
       IN  /\ jobs' = [jobs EXCEPT ![j] = q]
           /\ state' = StateAfter(state, r, q)
    /\ UNCHANGED <<rendered, started, surfaces, previewVars, drawVars, clock>>

\* --------------------------------------------------------- export frames
\* exportAudio.duration is a number once the metadata loaded and NaN again
\* once cleanup() emptied the src
DurationIsNaN(r) == r.audio \in {"none", "loading", "empty"}

\* Math.min((exportAudio.currentTime / exportAudio.duration) * 100, 100)
Progress(r) ==
    IF DurationIsNaN(r)
    THEN [reported |-> TRUE, nan |-> TRUE, percent |-> 0]
    ELSE [reported |-> TRUE, nan |-> FALSE,
          percent |-> Min((r.time * 100) \div Duration, 100)]

\* syncRenderLoop without the test of abortController.signal.aborted
syncRenderLoop_NoAbortCheck(r) ==
    IF r.audio = "ended"
    THEN [StopIfRecording(r) EXCEPT !.raf = FALSE]
    ELSE IF r.time # r.lastProgressUpdate
    THEN [r EXCEPT !.lastProgressUpdate = r.time, !.progress = Progress(r),
                   !.raf = TRUE]
    ELSE [r EXCEPT !.raf = TRUE]

\* one run of syncRenderLoop, on the locals of the job
syncRenderLoop(r) ==
    IF r.aborted \/ r.audio = "ended"
    THEN [StopIfRecording(r) EXCEPT !.raf = FALSE]
    ELSE IF r.time # r.lastProgressUpdate
    THEN [r EXCEPT !.lastProgressUpdate = r.time, !.progress = Progress(r),
                   !.raf = TRUE]
    ELSE [r EXCEPT !.raf = TRUE]

\* the export canvas of job j drawn on the canvas of the player
exportCanvas_Shared(j) == canvasRef

\* const exportCanvas = document.createElement('canvas'), one per job
exportCanvas(j) == j

\* drawFrame never reads or writes the cache it is handed: the surface shows
\* the frame of time t, its cache is as before
DrawOn(s, canvas, t) == [s EXCEPT ![canvas].drawn = t]

\* renderFrame(currentTimeMs) as called by syncRenderLoop: nothing is drawn
\* once the job is aborted or the export audio ended
renderFrame(s, j, r) ==
    IF r.aborted \/ r.audio = "ended" THEN s
    ELSE DrawOn(s, exportCanvas(j), r.time)

\* the frame callback scheduled by requestAnimationFrame(syncRenderLoop)
ExportFrame(j) ==
    /\ jobs[j].raf
    /\ jobs' = [jobs EXCEPT ![j] = syncRenderLoop(jobs[j])]
    /\ surfaces' = renderFrame(surfaces, j, jobs[j])
    /\ UNCHANGED <<state, rendered, started, previewVars, drawVars, clock>>

\* ------------------------------------------------------ export audio events
\* exportAudio.onloadedmetadata; start is what recorder.start / play() do
onloadedmetadata(r, start) ==
    LET recording == [r EXCEPT !.recorder = "recording", !.time = 0]
    IN  IF start = "startThrows"
        THEN [r EXCEPT !.errors = @ + 1]
        ELSE IF start = "playUndefined"
        THEN Reject([recording EXCEPT !.errors = @ + 1])
        ELSE [recording EXCEPT !.paused = FALSE, !.play = "pending"]

StartResults == {"ok", "startThrows", "playUndefined"}

\* the element loads its metadata; the event is lost when no handler is set yet
LoadedMetadata(j, start) ==
    /\ jobs[j].audio = "loading"
    /\ LET r == [jobs[j] EXCEPT !.audio = "ready"]
           q == IF r.handlers THEN onloadedmetadata(r, start) ELSE r
       IN  /\ jobs' = [jobs EXCEPT ![j] = q]
           /\ state' = StateAfter(state, r, q)
    /\ UNCHANGED <<rendered, started, surfaces, previewVars, drawVars, clock>>

\* playPromise.then(...): first run of syncRenderLoop, then resolve(); the
\* async function resumes after the await and returns
PlayResolved(j) ==
    /\ jobs[j].play = "pending"
    /\ jobs[j].audio = "ready"
    /\ ~jobs[j].paused
    /\ LET r == [jobs[j] EXCEPT !.play = "settled"]
           l == syncRenderLoop(r)
       IN  /\ jobs' = [jobs EXCEPT ![j] =
                IF l.promise = "pending"
                THEN [l EXCEPT !.promise = "resolved", !.pc = "returned"]
                ELSE l]
           /\ surfaces' = renderFrame(surfaces, j, r)
    /\ UNCHANGED <<state, rendered, started, previewVars, drawVars, clock>>

\* playPromise.catch(reject): playback was refused or interrupted by pause()
PlayRejected(j) ==
    /\ jobs[j].play = "pending"
    /\ LET r == [jobs[j] EXCEPT !.play = "settled", !.paused = TRUE,
                                 !.errors = @ + 1]
           q == Reject(r)
       IN  /\ jobs' = [jobs EXCEPT ![j] = q]
           /\ state' = StateAfter(state, r, q)
    /\ UNCHANGED <<rendered, started, surfaces, previewVars, drawVars, clock>>

\* one second of media time passes on the playing export audio
AudioTick(j) ==
    /\ jobs[j].audio = "ready"
    /\ ~jobs[j].paused
    /\ jobs[j].play = "settled"
    /\ jobs[j].time < Duration
    /\ jobs' = [jobs EXCEPT ![j].time = @ + 1]
    /\ UNCHANGED <<state, rendered, started, surfaces, previewVars, drawVars, clock>>

\* exportAudio.onended
onended(r) == StopIfRecording(r)

\* end of media on the export audio
AudioEnded(j) ==
    /\ jobs[j].audio = "ready"
    /\ ~jobs[j].paused
    /\ jobs[j].play = "settled"
    /\ jobs[j].time = Duration
    /\ jobs' = [jobs EXCEPT ![j] =
            onended([jobs[j] EXCEPT !.audio = "ended", !.paused = TRUE])]
    /\ UNCHANGED <<state, rendered, started, surfaces, previewVars, drawVars, clock>>

\* exportAudio.onerror = reject
onerror(r) == Reject(r)

\* a network or decode error of the export audio, while loading or playing
AudioError(j) ==
    /\ jobs[j].audio \in {"loading", "ready"}
    /\ LET r == [jobs[j] EXCEPT !.audio = "error",
                                 !.errors = IF jobs[j].play # "none" THEN @ + 1 ELSE @]
           q == IF r.handlers THEN onerror(r) ELSE r
       IN  /\ jobs' = [jobs EXCEPT ![j] = q]
           /\ state' = StateAfter(state, r, q)
    /\ UNCHANGED <<rendered, started, surfaces, previewVars, drawVars, clock>>

\* delivery of the 'error' event queued by exportAudio.src = ''
EmptySrcError(j) ==
    /\ jobs[j].errorQueued
    /\ LET r == [jobs[j] EXCEPT !.errorQueued = FALSE]
           q == IF r.handlers THEN onerror(r) ELSE r
       IN  /\ jobs' = [jobs EXCEPT ![j] = q]
           /\ state' = StateAfter(state, r, q)
    /\ UNCHANGED <<rendered, started, surfaces, previewVars, drawVars, clock>>

\* --------------------------------------------------------- recorder events
\* onstop with its final cleanup() call left out
onstop_NoCleanup(r, now) ==
    [r EXCEPT !.downloads = @ + 1, !.completes = @ + 1]

\* a.download = `lyro-video-${Date.now()}.${fileExtension}`
\* as the fixed texts it is made of, the number printed in it and the extension
downloadName(now, ext) == [text |-> <<"lyro-video-", ".">>, stamp |-> now, ext |-> ext]

\* recorder.onstop: build the blob, download it, toast 'Export Complete!',
\* then cleanup()
onstop(r, now) ==
    cleanup([r EXCEPT !.blobType = "video/mp4",
                      !.download = downloadName(now, r.fileExtension),
                      !.downloads = @ + 1, !.completes = @ + 1])

\* delivery of the recorder's 'stop' event
RecorderStop(j) ==
    /\ jobs[j].stopQueued
    /\ LET r == [jobs[j] EXCEPT !.stopQueued = FALSE]
           q == onstop(r, clock)
       IN  /\ jobs' = [jobs EXCEPT ![j] = q]
           /\ state' = StateAfter(state, r, q)
    /\ UNCHANGED <<rendered, started, surfaces, previewVars, drawVars, clock>>

\* recorder.onerror: console.error, cleanup(), setIsExporting(false)
recorderOnerror(r) == cleanup(r)

\* the recorder fails while recording: it becomes inactive, fires 'error'
\* and then 'stop' (MediaStream Recording, error handling)
RecorderError(j) ==
    /\ jobs[j].recorder = "recording"
    /\ LET r == [jobs[j] EXCEPT !.recorder = "inactive", !.stopQueued = TRUE,
                                 !.errors = @ + 1]
           q == recorderOnerror(r)
       IN  /\ jobs' = [jobs EXCEPT ![j] = q]
           /\ state' = [StateAfter(state, r, q) EXCEPT !.isExporting = FALSE]
    /\ UNCHANGED <<rendered, started, surfaces, previewVars, drawVars, clock>>

\* ------------------------------------------------------- handleCancelExport
\* the 'abort' listener registered by handleExport
abortListener(r) ==
    cleanup(StopIfRecording([r EXCEPT !.stateAtAbort = r.recorder]))

\* exportAbortController.abort(): the signal fires 'abort' once
abort(r) ==
    IF r.aborted THEN r
    ELSE IF r.abortListener THEN abortListener([r EXCEPT !.aborted = TRUE])
    ELSE [r EXCEPT !.aborted = TRUE, !.stateAtAbort = "unheard"]

\* click on "Cancel Export" (rendered only while isExporting): abort the
\* rendered controller, toast 'Export Cancelled'
HandleCancelExport ==
    /\ rendered.isExporting
    /\ rendered.exportAbortController # 0
    /\ LET j == rendered.exportAbortController
           r == jobs[j]
           q == [abort(r) EXCEPT !.cancels = @ + 1]
           s == StateAfter(state, r, q)
       IN  /\ r.cancels < MaxCancelClicks
           /\ jobs' = [jobs EXCEPT ![j] = q]
           /\ state' = s
           /\ rendered' = s
    /\ UNCHANGED <<started, surfaces, previewVars, drawVars, clock>>

\* React commits the pending state updates
Render ==
    /\ rendered # state
    /\ rendered' = state
    /\ UNCHANGED <<state, jobs, started, surfaces, previewVars, drawVars, clock>>

\* ------------------------------------------------------------------ preview
\* audio.ended: the position is the end of the loaded media
ended(p) == p.loaded /\ p.time = PreviewDuration

\* ids requestAnimationFrame can hand out; an id is never handed out while it
\* is pending or still held by animationFrameRef
FrameIds == 1..4

\* animationFrameRef.current = requestAnimationFrame(renderLoop)
schedule(p) ==
    LET free == FrameIds \ (p.pending \cup {p.ref})
        id == CHOOSE i \in free : \A k \in free : i <= k
    IN  [p EXCEPT !.ref = id, !.pending = @ \cup {id}]

\* the tail of renderLoop: reschedule while the audio plays, else cancel and
\* clear animationFrameRef
reschedule(p) ==
    IF ~p.paused /\ ~ended(p) THEN schedule(p)
    ELSE IF p.ref # 0
    THEN [p EXCEPT !.pending = @ \ {p.ref}, !.ref = 0]
    ELSE p

\* renderLoop on the canvas of the player: draw when readyState >= 2
renderLoop(s, p) == IF p.loaded THEN DrawOn(s, canvasRef, p.time) ELSE s

\* startRenderLoop without its guard
startRenderLoop_NoGuard(p) == schedule(p)

startRenderLoop(p) == IF p.ref = 0 THEN schedule(p) ELSE p

\* stopRenderLoop clearing the ref without cancelAnimationFrame
stopRenderLoop_NoCancel(p) == [p EXCEPT !.ref = 0]

\* stopRenderLoop cancelling the frame without clearing the ref
stopRenderLoop_KeepRef(p) == [p EXCEPT !.pending = @ \ {p.ref}]

stopRenderLoop(p) ==
    IF p.ref # 0
    THEN [p EXCEPT !.pending = @ \ {p.ref}, !.ref = 0]
    ELSE p

updateTimingOnPlay(p) == startRenderLoop(p)

\* the listeners the effect added for event e
Listeners(p, e) ==
    IF e = "play" THEN updateTimingOnPlay(p) ELSE stopRenderLoop(p)

\* the playback position reached the end: the element pauses itself and queues
\* 'pause' and 'ended'
ReachEnd(p) ==
    IF ended(p) /\ ~p.paused
    THEN [p EXCEPT !.paused = TRUE, !.events = @ \o <<"pause", "ended">>]
    ELSE p

\* audio.play(): rewind an ended audio, unpause, queue 'play'
play(p) ==
    [p EXCEPT !.time = IF ended(p) THEN 0 ELSE @,
              !.paused = FALSE, !.events = @ \o <<"play">>]

\* audio.pause(): pause, queue 'pause'
pause(p) ==
    [p EXCEPT !.paused = TRUE, !.events = @ \o <<"pause">>]

\* click on the play button, disabled while isExporting
togglePlay ==
    /\ ~rendered.isExporting
    /\ Len(preview.events) < MaxQueued
    /\ preview' = IF preview.paused THEN play(preview) ELSE pause(preview)
    /\ UNCHANGED <<surfaces, exportVars, drawVars>>

\* the slider, disabled while isExporting: audio.currentTime = v
handleSeek(v) ==
    /\ ~rendered.isExporting
    /\ preview.loaded
    /\ Len(preview.events) + 2 <= MaxQueued
    /\ preview' = ReachEnd([preview EXCEPT !.time = v])
    /\ UNCHANGED <<surfaces, exportVars, drawVars>>

\* the audio of the player has loaded its first frame
PreviewLoaded ==
    /\ ~preview.loaded
    /\ preview' = [preview EXCEPT !.loaded = TRUE]
    /\ UNCHANGED <<surfaces, exportVars, drawVars>>

\* one second of media time passes on the playing audio of the player
PreviewTick ==
    /\ preview.loaded
    /\ ~preview.paused
    /\ preview.time < PreviewDuration
    /\ Len(preview.events) + 2 <= MaxQueued
    /\ preview' = ReachEnd([preview EXCEPT !.time = @ + 1])
    /\ UNCHANGED <<surfaces, exportVars, drawVars>>

\* a queued 'play', 'pause' or 'ended' event is delivered to the listeners
PreviewEvent ==
    /\ preview.events # <<>>
    /\ preview' = Listeners([preview EXCEPT !.events = Tail(@)],
                            Head(preview.events))
    /\ UNCHANGED <<surfaces, exportVars, drawVars>>

\* a pending requestAnimationFrame(renderLoop) callback runs
PreviewFrame ==
    /\ \E id \in preview.pending :
          preview' = reschedule([preview EXCEPT !.pending = @ \ {id}])
    /\ surfaces' = renderLoop(surfaces, preview)
    /\ UNCHANGED <<exportVars, drawVars>>

\* backgroundImages or sortedLyrics change identity: the effect's cleanup
\* runs (stopRenderLoop), then the effect again: the word-wrap cache of the
\* player is cleared and renderLoop() is called directly
EffectRerun ==
    /\ preview' = reschedule(stopRenderLoop(preview))
    /\ surfaces' = renderLoop([surfaces EXCEPT ![canvasRef].cache = {}], preview)
    /\ UNCHANGED <<exportVars, drawVars>>

PreviewNext ==
    \/ togglePlay
    \/ \E v \in 0..PreviewDuration : handleSeek(v)
    \/ PreviewLoaded
    \/ PreviewTick
    \/ PreviewEvent
    \/ PreviewFrame
    \/ EffectRerun

\* the player alone: no export is started
PreviewSpec == Init /\ [][PreviewNext]_vars

\* ------------------------------------------------------------ specification
\* what MediaRecorder.isTypeSupported can accept of the probed mime types
SupportedSets == SUBSET {Formats[1], Formats[2], Formats[3]}

\* the two outcomes of the probes the rest of handleExport depends on: a
\* browser that records every probed format, and one that records none
AllOrNone == {{Formats[1], Formats[2], Formats[3]}, {}}

\* every event of one job
JobEvent(j) ==
    \/ \E audioOk, recorderOk \in BOOLEAN : ResumeSettled(j, audioOk, recorderOk)
    \/ \E start \in StartResults : LoadedMetadata(j, start)
    \/ PlayResolved(j)
    \/ PlayRejected(j)
    \/ ExportFrame(j)
    \/ AudioTick(j)
    \/ AudioEnded(j)
    \/ AudioError(j)
    \/ EmptySrcError(j)
    \/ RecorderStop(j)
    \/ RecorderError(j)

Next ==
    \/ /\ started < MaxJobs
       /\ \E supported \in AllOrNone, canvasOk, audioContextOk, recorderOk \in BOOLEAN :
             HandleExport(supported, canvasOk, audioContextOk, recorderOk)
    \/ \E j \in Jobs : JobEvent(j)
    \/ HandleCancelExport
    \/ Render

\* the export pipeline alone: no step of the player is taken
Spec == Init /\ [][Next]_vars

\* The same program in an environment where nothing fails: every format is
\* supported, no constructor or call throws, the audio and the recorder do
\* not fail, and the 'error' event of an emptied src is not followed. What is
\* left is the order of clicks, renders, frames and media events. Every
\* behaviour of RaceSpec is a behaviour of the program.
RaceEvent(j) ==
    \/ ResumeSettled(j, TRUE, TRUE)
    \/ LoadedMetadata(j, "ok")
    \/ PlayResolved(j)
    \/ ExportFrame(j)
    \/ AudioTick(j)
    \/ AudioEnded(j)
    \/ RecorderStop(j)

RaceNext ==
    \/ /\ started < RaceJobs
       /\ HandleExport({Formats[1], Formats[2], Formats[3]}, TRUE, TRUE, TRUE)
    \/ \E j \in Jobs : RaceEvent(j)
    \/ HandleCancelExport
    \/ Render

RaceSpec == Init /\ [][RaceNext]_vars

\* Fairness the scheduling of the page guarantees: a committed render, a
\* settled promise, a queued event and a scheduled frame callback do run, and
\* a healthy audio element loads, plays and ends. Clicks and failures of the
\* environment are never forced.
JobProgress(j) ==
    /\ WF_vars(\E audioOk, recorderOk \in BOOLEAN : ResumeSettled(j, audioOk, recorderOk))
    /\ WF_vars(\E start \in StartResults : LoadedMetadata(j, start))
    /\ WF_vars(PlayResolved(j) \/ PlayRejected(j))
    /\ WF_vars(ExportFrame(j))
    /\ WF_vars(AudioTick(j))
    /\ WF_vars(AudioEnded(j))
    /\ WF_vars(EmptySrcError(j))
    /\ WF_vars(RecorderStop(j))

FairSpec == Spec /\ WF_vars(Render) /\ \A j \in Jobs : JobProgress(j)

\* the failure-free environment under the same fairness
FairRaceSpec == RaceSpec /\ WF_vars(Render) /\ \A j \in Jobs : JobProgress(j)

\* The first export job of the page in every browser: any set of supported
\* formats, nothing else fails.
ProbeNext ==
    \/ /\ started = 0
       /\ \E supported \in SupportedSets : HandleExport(supported, TRUE, TRUE, TRUE)
    \/ \E j \in Jobs : RaceEvent(j)
    \/ HandleCancelExport
    \/ Render

ProbeSpec == Init /\ [][ProbeNext]_vars

\* the wall clock advances
ClockTick ==
    /\ clock < MaxClock
    /\ clock' = clock + 1
    /\ UNCHANGED <<state, rendered, jobs, started, surfaces, previewVars, drawVars>>

\* The failure-free environment with the wall clock running: exports of the
\* same video end at different instants.
DownloadNext ==
    \/ /\ started < RaceJobs
       /\ HandleExport({Formats[1], Formats[2], Formats[3]}, TRUE, TRUE, TRUE)
    \/ \E j \in Jobs : RaceEvent(j)
    \/ HandleCancelExport
    \/ Render
    \/ ClockTick

DownloadSpec == Init /\ [][DownloadNext]_vars

\* The player and the first export job of the page side by side, in the
\* environment where nothing fails.
IsolationExportNext ==
    \/ /\ started = 0
       /\ HandleExport({Formats[1], Formats[2], Formats[3]}, TRUE, TRUE, TRUE)
    \/ \E j \in Jobs : RaceEvent(j)
    \/ HandleCancelExport
    \/ Render

IsolationNext ==
    \/ IsolationExportNext
    \/ PreviewNext

IsolationSpec == Init /\ [][IsolationNext]_vars

\* The compositor on its own. The timeline is any list of at most MaxScenes
\* scenes, each image decoded or not, beside the lyrics of Scenario B, or any
\* list of at most MaxLines lyric lines of at most MaxWords words beside the
\* decoded scenes of Scenario A, in any order (the component sorts the lyrics,
\* nothing sorts the scenes). A step draws the frame of the next of the times
\* FrameTimes, as renderLoop and renderFrame do with the currentTime of their
\* playing audio, or the frame of the time the slider was moved to; images
\* finish decoding between frames.
SceneTimes == {0, 29500, 30000, 45000}
LineStarts == {1000, 5000}
WordTimes == {0, 5001}
FrameTimes == {0, 999, 1000, 4001, 5000, 5500, 7001, 7002, 29000, 29250, 29500,
               30000, 45000}
SeekTimes == {0}

SeqsUpTo(S, n) == UNION {[1..k -> S] : k \in 0..n}

Lines == {Line(st, w) : st \in LineStarts, w \in SeqsUpTo(WordTimes, MaxWords)}

Timelines ==
    {[title |-> Title, backgroundScenes |-> sc, syncedLyrics |-> ScenarioB] :
        sc \in SeqsUpTo(SceneTimes, MaxScenes)}
    \cup
    {[title |-> Title, backgroundScenes |-> ScenarioA, syncedLyrics |-> ly] :
        ly \in SeqsUpTo(Lines, MaxLines)}

DrawInit ==
    /\ InitComponent
    /\ videoData \in Timelines
    /\ complete \in [DOMAIN videoData.backgroundScenes -> BOOLEAN]
    /\ videoData.syncedLyrics # ScenarioB =>
           complete = [i \in DOMAIN ScenarioA |-> TRUE]
    /\ kenBurns = NoKenBurns
    /\ wrap = NoWrap
    /\ malformed = WellFormed

\* sorting the array itself: syncedLyrics.sort(...)
syncedLyricsAfterSort_InPlace(lyrics) == SortByStartTime(lyrics)

\* the syncedLyrics prop after the sortedLyrics memo ran: [...syncedLyrics]
\* is a copy, sort() reorders the copy
syncedLyricsAfterSort(lyrics) == lyrics

\* the props after the two memos ran (map() builds a new array of scenes)
afterMemos(data) ==
    [data EXCEPT !.syncedLyrics = syncedLyricsAfterSort(data.syncedLyrics)]

\* drawFrame(ctx, canvas, t, duration, backgroundImages, sortedLyrics, cache)
\* on the context the last frame left
Draw(t) ==
    /\ frame' = drawFrame(frame.context, backgroundImages(videoData), complete,
                          sortedLyrics(videoData), t)
    /\ videoData' = afterMemos(videoData)
    /\ UNCHANGED <<complete, kenBurns, wrap, malformed, surfaces, previewVars,
                   exportVars>>

\* the frame of the next time t of the playing audio's clock
DrawFrameAt(t) ==
    /\ t > frame.timeMs
    /\ \A u \in FrameTimes : u > frame.timeMs => t <= u
    /\ Draw(t)

\* the frame after the slider moved the audio to time t
DrawFrameAfterSeek(t) ==
    /\ Drawn
    /\ t # frame.timeMs
    /\ Draw(t)

\* the image of scene i finishes decoding
ImageDecoded(i) ==
    /\ i \in DOMAIN complete
    /\ ~complete[i]
    /\ complete' = [complete EXCEPT ![i] = TRUE]
    /\ UNCHANGED <<videoData, frame, kenBurns, wrap, malformed, surfaces,
                   previewVars, exportVars>>

DrawNext ==
    \/ \E t \in FrameTimes : DrawFrameAt(t)
    \/ \E t \in SeekTimes : DrawFrameAfterSeek(t)
    \/ \E i \in 1..MaxScenes : ImageDecoded(i)

DrawSpec == DrawInit /\ [][DrawNext]_vars

\* ------------------------------------------------- the Ken Burns animation
\* frames of a video of durationSeconds with scenes a second or two long and
\* decoded square, 16:9 and portrait images, with the arithmetic of every
\* drawKenBurns call kept
KenBurnsSceneTimes == {0, 1000, 2000}

KenBurnsFrameTimes == {0, 250, 500, 750, 1000, 1500, 2000, 2500}

ImageSizes == {<<1024, 1024>>, <<1920, 1080>>, <<768, 1024>>}

KenBurnsInit ==
    /\ InitComponent
    /\ \E sc \in SeqsUpTo(KenBurnsSceneTimes, MaxScenes) :
           videoData = [title |-> Title, backgroundScenes |-> sc,
                        syncedLyrics |-> <<>>]
    /\ complete = [i \in DOMAIN videoData.backgroundScenes |-> TRUE]
    /\ \E canvas \in Canvases :
       \E natural \in [DOMAIN videoData.backgroundScenes -> ImageSizes] :
           kenBurns = [canvas |-> canvas, natural |-> natural, calls |-> <<>>]
    /\ wrap = NoWrap
    /\ malformed = WellFormed

\* drawFrame at time t: one drawKenBurns call per image it draws
DrawKenBurnsFrame(t) ==
    LET bg == backgroundImages(videoData)
    IN  /\ frame' = drawFrame(frame.context, bg, complete,
                              sortedLyrics(videoData), t)
        /\ videoData' = afterMemos(videoData)
        /\ kenBurns' =
               [kenBurns EXCEPT !.calls =
                   [k \in DOMAIN frame'.images |->
                       LET i == frame'.images[k].image
                       IN  [image |-> i,
                            args  |-> drawImageArgs(kenBurns.natural[i],
                                                    kenBurns.canvas, t, bg[i],
                                                    sceneEndTime(bg, i))]]]
        /\ UNCHANGED <<complete, wrap, malformed, surfaces, previewVars,
                       exportVars>>

KenBurnsNext == \E t \in KenBurnsFrameTimes : DrawKenBurnsFrame(t)

KenBurnsSpec == KenBurnsInit /\ [][KenBurnsNext]_vars

\* ------------------------------------------------------- the lyric layer
\* the texts of a lyric line, as the words split(' ') gives
Texts == SeqsUpTo(Words, MaxTextWords)

\* what a word-wrap cache could hold for the line: nothing, the line
\* unwrapped, or the line as the player's canvas wraps it
Caches(words) ==
    {{}, {<<words, <<words>>>>}, {<<words, wrapLines(canvasRef, words)>>}}

\* the canvases a frame with the line is drawn on: the player's and the
\* export canvas of the first job
LyricCanvases == {canvasRef, exportCanvas(1)}

\* a line is active, and the caches that go with the two canvases hold
\* anything
WrapInit ==
    /\ state = InitialState
    /\ rendered = InitialState
    /\ jobs = [j \in Jobs |-> NoJob]
    /\ started = 0
    /\ clock = 0
    /\ preview = InitialPreview
    /\ frame = NoFrame
    /\ videoData = [title |-> Title, backgroundScenes |-> ScenarioA,
                    syncedLyrics |-> ScenarioB]
    /\ complete = [i \in DOMAIN ScenarioA |-> TRUE]
    /\ kenBurns = NoKenBurns
    /\ malformed = WellFormed
    /\ \E words \in Texts :
           /\ wrap = [NoWrap EXCEPT !.line = words]
           /\ \E c \in [LyricCanvases -> Caches(words)] :
                  surfaces = [i \in {canvasRef} \cup Jobs |->
                                 IF i \in LyricCanvases
                                 THEN [BlankSurface EXCEPT !.cache = c[i]]
                                 ELSE BlankSurface]

\* drawFrame on the canvas, with the cache that goes with it, while the line
\* is the active lyric: the lyric layer it draws
DrawLyricOn(canvas) ==
    /\ canvas \notin wrap.drawnOn
    /\ surfaces' = DrawOn(surfaces, canvas, 0)
    /\ wrap' = [wrap EXCEPT !.drawnOn = @ \cup {canvas},
                            !.lines[canvas] =
                                lyricLines(surfaces[canvas].cache, canvas, wrap.line)]
    /\ UNCHANGED <<videoData, complete, frame, kenBurns, malformed, previewVars,
                   exportVars>>

WrapNext == \E canvas \in LyricCanvases : DrawLyricOn(canvas)

WrapSpec == WrapInit /\ [][WrapNext]_vars

\* ------------------------------------------------------- malformed props
\* the lyrics the sortedLyrics memo and the lyric loop of drawFrame work on
\* when fields are undefined: `!syncedLyrics` gives [], and a line that fails
\* `line.words && line.words.length > 0` is treated as a line without words
lyricsRead(data, m) ==
    IF m.syncedLyrics THEN <<>>
    ELSE [k \in DOMAIN data.syncedLyrics |->
             IF k \in m.words THEN Line(data.syncedLyrics[k].startTime, <<>>)
             ELSE data.syncedLyrics[k]]

\* backgroundScenes.map(...) in the memo and backgroundImages.findIndex(...)
\* in drawFrame read a property of undefined
throwsTypeError(m) == m.backgroundScenes

\* timelines that are empty or there, and any choice of undefined fields; an
\* undefined list is written as the empty list
MalformedInit ==
    /\ InitComponent
    /\ kenBurns = NoKenBurns
    /\ wrap = NoWrap
    /\ \E sc \in {<<>>, ScenarioA}, ly \in {<<>>, ScenarioB} :
           /\ videoData = [title |-> Title, backgroundScenes |-> sc,
                           syncedLyrics |-> ly]
           /\ complete = [i \in DOMAIN sc |-> TRUE]
           /\ \E noScenes, noLyrics \in BOOLEAN, noWords \in SUBSET DOMAIN ly :
                  /\ noScenes => sc = <<>>
                  /\ noLyrics => ly = <<>>
                  /\ malformed = [backgroundScenes |-> noScenes,
                                  syncedLyrics |-> noLyrics,
                                  words |-> noWords, thrown |-> FALSE]

\* the memos and drawFrame at time t on these props
DrawMalformed(t) ==
    /\ ~malformed.thrown
    /\ IF throwsTypeError(malformed)
       THEN /\ malformed' = [malformed EXCEPT !.thrown = TRUE]
            /\ UNCHANGED frame
       ELSE /\ frame' = drawFrame(frame.context, backgroundImages(videoData),
                                  complete,
                                  SortByStartTime(lyricsRead(videoData, malformed)),
                                  t)
            /\ UNCHANGED malformed
    /\ UNCHANGED <<videoData, complete, kenBurns, wrap, surfaces, previewVars,
                   exportVars>>

MalformedNext == \E t \in FrameTimes : DrawMalformed(t)

MalformedSpec == MalformedInit /\ [][MalformedNext]_vars

\* ------------------------------------------------------------- vocabulary
Started(j) == jobs[j].pc # "idle"

\* the terminal outcomes a job has reported
Done(j) == jobs[j].completes > 0
Cancelled(j) == jobs[j].cancels > 0
Failed(j) == jobs[j].fails > 0

\* a job is terminal once it reported an outcome or ran its teardown
Terminal(j) == Done(j) \/ Cancelled(j) \/ Failed(j) \/ jobs[j].cleanups > 0

Live(j) == Started(j) /\ ~Terminal(j)

\* nothing of the job is still to run: no await to resume, no queued event,
\* no pending promise, no scheduled frame, no audio still loading or playing,
\* no uncommitted render
Drained(j) ==
    /\ jobs[j].pc # "awaitResume"
    /\ jobs[j].audio # "loading"
    /\ ~(jobs[j].audio = "ready" /\ ~jobs[j].paused)
    /\ ~jobs[j].stopQueued
    /\ ~jobs[j].errorQueued
    /\ ~jobs[j].raf
    /\ jobs[j].play # "pending"
    /\ rendered = state

\* no export resource of the job is live
Released(j) ==
    /\ jobs[j].recorder # "recording"
    /\ ~jobs[j].stream
    /\ jobs[j].ctx # "open"
    /\ ~jobs[j].inDom
    /\ jobs[j].paused

\* ------------------------------------------------------------------ claims

\* C1: at most one export job is live at any time: handleExport called while
\* an earlier job has not reached Done, Cancelled or Failed starts no second
\* job.
C1_OneLiveJob == Cardinality({j \in Jobs : Live(j)}) <= 1

\* C2 (Scenario C): after a cancel signal fired while the recorder was
\* recording, the completion path never runs for that job, the cancel
\* notification was delivered exactly once and cleanup ran exactly once.
C2_CancelMidRecording ==
    \A j \in Jobs :
        jobs[j].stateAtAbort = "recording" =>
            /\ jobs[j].completes = 0
            /\ jobs[j].downloads = 0
            /\ jobs[j].cancels = 1
            /\ jobs[j].cleanups = 1

\* C3: a job reports at most one terminal outcome: never cancelled and
\* complete, never failed and complete, never complete twice.
C3_OneOutcome ==
    \A j \in Jobs :
        /\ ~(Cancelled(j) /\ Done(j))
        /\ ~(Failed(j) /\ Done(j))
        /\ ~(Cancelled(j) /\ Failed(j))
        /\ jobs[j].completes <= 1

\* C4: once the pending events of a cancelled job have drained, none of its
\* export resources is live: recorder not recording, capture stream ended,
\* AudioContext closed, export audio paused and out of the DOM.
C4_CancelReleasesAll ==
    \A j \in Jobs : (jobs[j].aborted /\ Drained(j)) => Released(j)

\* C5: whenever an export job is live and the render is up to date, the
\* Cancel button is shown and the controller it aborts is that job's own.
C5_CancelReachesLiveJob ==
    \A j \in Jobs :
        (Live(j) /\ rendered = state) =>
            /\ rendered.isExporting
            /\ rendered.exportAbortController = j

\* C6: when the export audio reports end-of-media while the recorder is
\* recording, capture is stopped in that step and the recorder's stop event
\* is queued; the delivery of a queued stop event builds and downloads the
\* file once and then runs cleanup, which leaves the job Done and torn down
\* with isExporting false and no abort controller held; a queued stop event
\* is dropped by nothing but its delivery.
C6_EndOfMediaFinalizes ==
    [][\A j \in Jobs :
        /\ (jobs[j].audio = "ready" /\ jobs'[j].audio = "ended"
                /\ jobs[j].recorder = "recording")
            => (jobs'[j].recorder = "inactive" /\ jobs'[j].stopQueued)
        /\ (jobs[j].stopQueued /\ ~jobs'[j].stopQueued)
            => /\ jobs'[j].completes = jobs[j].completes + 1
               /\ jobs'[j].downloads = jobs[j].downloads + 1
               /\ jobs'[j].cleanups = jobs[j].cleanups + 1
               /\ jobs'[j].ctx # "open"
               /\ ~jobs'[j].inDom
               /\ jobs'[j].paused
               /\ ~state'.isExporting
               /\ state'.exportAbortController = 0]_vars

\* a job completed by end-of-media alone: no cancel, no error
C6_Witness ==
    \E j \in Jobs :
        /\ Done(j)
        /\ ~jobs[j].aborted
        /\ jobs[j].errors = 0
        /\ jobs[j].cleanups = 1
        /\ ~state.isExporting

\* C7: every capture or audio error raised while the job records (recorder
\* 'error', audio 'error' after play(), rejected play(), exception in the
\* metadata handler) ends in a reported failure and a teardown.
C7_ErrorsSurface ==
    \A j \in Jobs :
        jobs[j].errors > 0 => (Failed(j) /\ jobs[j].cleanups >= 1)

\* C8: a job that found no supported recording format ends as a reported
\* failure with the teardown done: isExporting false, no abort controller.
C8_NoFormatTearsDown ==
    \A j \in Jobs :
        (Started(j) /\ ~jobs[j].formatOk) =>
            /\ Failed(j)
            /\ ~rendered.isExporting
            /\ rendered.exportAbortController = 0

C10_JobTerminates ==
    \A j \in Jobs : Started(j) ~> (Terminal(j) /\ ~state.isExporting)

\* what of the player the export must leave alone: the position and paused
\* state of its audio, its canvas and its word-wrap cache
PreviewSide == <<preview.paused, preview.time, surfaces[canvasRef]>>

\* what of the export the player must leave alone: the export audio (with the
\* other locals of the job), the export canvas and the export cache
ExportSide == <<jobs, [j \in Jobs |-> surfaces[j]]>>

\* C11: the player's audio position and paused state, canvas and word-wrap
\* cache are changed by steps of the player only (play, pause, seek, tick,
\* preview frame, effect re-run), never by a step of the export (start,
\* resumed await, export audio and recorder events, export frame, cancel,
\* teardown); the export audio, export canvas and export cache are changed by
\* steps of the export only; and no step changes both sides.
C11_PreviewExportIsolated ==
    [][ /\ PreviewSide' # PreviewSide => PreviewNext
        /\ ExportSide' # ExportSide => IsolationExportNext
        /\ PreviewSide' = PreviewSide \/ ExportSide' = ExportSide ]_vars

\* the player plays and has drawn while an export job records and has drawn
C11_Witness ==
    \E j \in Jobs :
        /\ jobs[j].recorder = "recording"
        /\ surfaces[exportCanvas(j)].drawn >= 0
        /\ ~preview.paused
        /\ surfaces[canvasRef].drawn > 0
        /\ surfaces[canvasRef].drawn # surfaces[exportCanvas(j)].drawn

\* C12: every progress value an export job reported is a number between 0 and
\* 100 percent, computed from the export audio's currentTime and duration.
C12_ProgressInRange ==
    \A j \in Jobs :
        jobs[j].progress.reported =>
            /\ ~jobs[j].progress.nan
            /\ jobs[j].progress.percent \in 0..100

\* the preview loop is at rest: nothing scheduled, animationFrameRef cleared
LoopAtRest == preview.pending = {} /\ preview.ref = 0

\* C13: once the player's audio is paused or ended and its media events are
\* delivered, no preview render callback is scheduled and animationFrameRef is
\* cleared; and the frame callback that finds the audio paused or ended
\* leaves none scheduled and the ref cleared.
C13_NoLeakedCallback ==
    /\ []((preview.paused \/ ended(preview)) /\ preview.events = <<>> => LoopAtRest)
    /\ [][ (preview.pending # {} /\ preview'.pending # preview.pending
              /\ preview'.events = preview.events
              /\ (preview.paused \/ ended(preview)))
           => (preview'.pending = {} /\ preview'.ref = 0) ]_vars

\* the loop drew the audio at a later time, the audio is paused since and
\* the loop is at rest
C13_Witness ==
    /\ preview.paused
    /\ preview.time > 0
    /\ preview.events = <<>>
    /\ surfaces[canvasRef].drawn > 0
    /\ LoopAtRest

\* C14: at most one preview render callback is pending at any time.
C14_OneCallbackPending == Cardinality(preview.pending) <= 1

\* a running loop (a rescheduled callback) with a 'pause' and a 'play' event
\* still to be delivered
C14_Witness ==
    /\ Cardinality(preview.pending) = 1
    /\ preview.ref = 2
    /\ preview.events = <<"pause", "play">>

\* C15: whenever the player's audio plays and its media events are delivered,
\* a preview render callback is scheduled and animationFrameRef holds its id
\* (never a stale one), so the next display frame draws.
C15_LoopResumes ==
    (~preview.paused /\ preview.events = <<>>) =>
        (preview.ref # 0 /\ preview.pending = {preview.ref})

\* the canvas shows the frame of the end of the audio, and the audio plays
\* again from an earlier position with its loop scheduled
C15_Witness ==
    /\ surfaces[canvasRef].drawn = PreviewDuration
    /\ preview.time < PreviewDuration
    /\ ~preview.paused
    /\ preview.events = <<>>
    /\ preview.pending # {}

\* C16: for a non-empty scene list the scene drawFrame selects has started at
\* the time of the frame, or it is the first scene and the time precedes every
\* scene's startTime.
C16_ActiveSceneStarted ==
    LET bg == backgroundImages(videoData)
        t == frame.timeMs
        i == frame.scene
    IN  (Drawn /\ Len(bg) > 0) =>
            /\ i \in 1..Len(bg)
            /\ \/ bg[i] <= t
               \/ i = 1 /\ \A k \in 1..Len(bg) : t < bg[k]

\* a frame before every scene's start shows the first of several scenes
C16_Witness ==
    LET bg == backgroundImages(videoData)
    IN  /\ Drawn
        /\ Len(bg) >= 2
        /\ \A k \in 1..Len(bg) : frame.timeMs < bg[k]
        /\ frame.scene = 1

\* C17: for every time at or after the last scene's startTime, the last scene
\* of the list handed to drawFrame is the active scene and no crossfade is
\* drawn; Scenario A at 45000 gives scene 2 of 2 and no crossfade.
C17_LastSceneStays ==
    LET bg == backgroundImages(videoData)
    IN  /\ (Drawn /\ Len(bg) > 0 /\ frame.timeMs >= bg[Len(bg)])
            => (frame.scene = Len(bg) /\ ~frame.crossfade)
        /\ currentSceneIndex(ScenarioA, 45000) = 2
        /\ ~crossfade(ScenarioA, 45000)

\* line i's interval [startTime, endTime) contains t
Contains(lyrics, i, t) ==
    lyrics[i].startTime <= t /\ Before(t, endTime(lyrics, i))

\* C18: the active lyric of a frame is a line whose interval
\* [startTime, endTime) contains the time of the frame, and null exactly when
\* no line's interval does; in Scenario B it is null at 999, the first line at
\* 1000 and the next line at 5000.
C18_ActiveLyricInInterval ==
    LET lyrics == sortedLyrics(videoData)
        t == frame.timeMs
        a == frame.lyric
    IN  /\ Drawn =>
            /\ a \in 0..Len(lyrics)
            /\ a # 0 => Contains(lyrics, a, t)
            /\ a = 0 => \A i \in 1..Len(lyrics) : ~Contains(lyrics, i, t)
        /\ currentLyric(ScenarioB, 999) = 0
        /\ currentLyric(ScenarioB, 1000) = 1
        /\ currentLyric(ScenarioB, 5000) = 2

\* a frame in the gap between the end of the first line and the start of the
\* second shows no lyric
C18_Witness ==
    LET lyrics == sortedLyrics(videoData)
    IN  /\ Drawn
        /\ Len(lyrics) = 2
        /\ lyrics[1].startTime <= frame.timeMs
        /\ frame.timeMs < lyrics[2].startTime
        /\ lyrics[1].words # <<>>
        /\ frame.lyric = 0

\* C19: for adjacent lines A, B of the sorted lyrics with A.startTime <
\* B.startTime the end computed for A is at most B.startTime, whatever the
\* words of A; and at most one line's interval contains the time of a frame.
C19_NoOverlap ==
    LET lyrics == sortedLyrics(videoData)
    IN  /\ \A i \in 1..(Len(lyrics) - 1) :
              lyrics[i].startTime < lyrics[i + 1].startTime =>
                  NotBefore(lyrics[i + 1].startTime, endTime(lyrics, i))
        /\ Drawn =>
              Cardinality({i \in 1..Len(lyrics) : Contains(lyrics, i, frame.timeMs)}) <= 1

\* line A has a word that starts after line B does, and a frame at B's start
\* or later shows B
C19_Witness ==
    LET lyrics == sortedLyrics(videoData)
    IN  /\ Drawn
        /\ Len(lyrics) = 2
        /\ lyrics[1].startTime < lyrics[2].startTime
        /\ \E k \in 1..Len(lyrics[1].words) :
              lyrics[1].words[k] > lyrics[2].startTime
        /\ frame.timeMs >= lyrics[2].startTime
        /\ frame.lyric = 2

\* C20: the final line of the list has a finite end (its latest word's start
\* plus the estimated duration of a word, or its startTime + 3000 without
\* words), and at every time at or beyond that end the active lyric is null.
C20_NullPastFinalEnd ==
    LET lyrics == sortedLyrics(videoData)
    IN  (Drawn /\ Len(lyrics) > 0
               /\ NotBefore(frame.timeMs, endTime(lyrics, Len(lyrics))))
            => frame.lyric = 0

\* the list is in ascending order of startTime
Ascending(bg) == \A k \in 1..(Len(bg) - 1) : bg[k] <= bg[k + 1]

\* C21: the alpha of the crossfade to the next scene lies in [0, 1] in every
\* frame of every scene list, is 0 (no crossfade is drawn) up to the start of
\* the fade window next.startTime - 1000, is 1 from next.startTime on, and
\* does not decrease from a frame to a later frame of the same scene.
C21_CrossfadeAlpha ==
    /\ [](LET bg == backgroundImages(videoData)
              i == frame.scene
          IN  /\ \A ns \in SceneTimes :
                     /\ fadeAlpha(ns - FADE_DURATION_MS, ns) = 0
                     /\ fadeAlpha(ns, ns) = EaseDen
              /\ Drawn =>
                     /\ frame.alpha >= 0 /\ frame.alpha <= EaseDen
                     /\ \A k \in DOMAIN frame.images :
                            /\ frame.images[k].globalAlpha >= 0
                            /\ frame.images[k].globalAlpha <= EaseDen
                     /\ (i # 0 /\ i < Len(bg)
                             /\ frame.timeMs <= bg[i + 1] - FADE_DURATION_MS)
                            => (~frame.crossfade /\ frame.alpha = 0)
                     /\ (frame.crossfade /\ frame.timeMs >= bg[i + 1])
                            => frame.alpha = EaseDen)
    /\ [][ (Drawn /\ frame'.timeMs >= frame.timeMs /\ frame'.scene = frame.scene)
              => frame'.alpha >= frame.alpha ]_vars

\* a crossfade in progress before the first scene has started, to a scene
\* that starts less than 1000 ms after the first
C21_Witness ==
    LET bg == backgroundImages(videoData)
    IN  /\ Drawn
        /\ Len(bg) >= 2
        /\ frame.timeMs < bg[1]
        /\ bg[1] < bg[2] /\ bg[2] - bg[1] < FADE_DURATION_MS
        /\ frame.crossfade
        /\ frame.alpha > 0 /\ frame.alpha < EaseDen

\* what a frame shows: everything but the state the context is left in
Picture(f) == [f EXCEPT !.context = FreshContext]

\* C22: the frame drawFrame draws is the frame it draws on a fresh context
\* from the same arguments (time, scenes with their load state, lyrics),
\* whatever frames were drawn on the context before, also after a seek.
C22_HistoryIndependent ==
    [][ frame' # frame =>
            Picture(frame') =
                Picture(drawFrame(FreshContext, backgroundImages(videoData),
                                  complete, sortedLyrics(videoData),
                                  frame'.timeMs)) ]_vars

\* the frame of time 0 drawn again after a seek back from frames with
\* lyrics: the context is not as fresh, the background is drawn opaque
C22_Witness ==
    /\ frame.timeMs = 0
    /\ frame.context.textAlign = "center"
    /\ Len(frame.images) > 0
    /\ \A k \in DOMAIN frame.images : frame.images[k].globalAlpha = EaseDen

\* C23: a frame draws no image that is not decoded, neither the active
\* scene's nor the crossfade target's, and draws the lyric line active at its
\* time all the same.
C23_UndecodedImageSkipped ==
    [][ frame' # frame =>
            /\ \A k \in DOMAIN frame'.images : complete[frame'.images[k].image]
            /\ frame'.lyric = currentLyric(sortedLyrics(videoData), frame'.timeMs) ]_vars

\* Scenario D: the image of the active scene is not decoded, nothing of the
\* background is drawn, the active lyric line is
C23_Witness ==
    /\ Drawn
    /\ frame.scene # 0
    /\ ~complete[frame.scene]
    /\ frame.images = <<>>
    /\ frame.lyric # 0

\* C24: no step changes the backgroundScenes and syncedLyrics it was handed.
C24_TimelinesNotMutated ==
    [][videoData' = videoData]_vars

\* frames were drawn from lyrics that were handed over out of order
C24_Witness ==
    /\ Drawn
    /\ frame.lyric # 0
    /\ sortedLyrics(videoData) # videoData.syncedLyrics

\* the place of mime type m in the order of preference
Preference(m) == CHOOSE k \in 1..Len(Formats) : Formats[k] = m

\* the file extension of each container
ContainerExtension(m) == IF m = "mp4" THEN "mp4" ELSE "webm"

\* C25: an export job records in the first format of the order MP4
\* H.264+AAC, WebM VP9+Opus, plain WebM that isTypeSupported accepts (and in
\* none only if none is accepted), and the file it downloads has the
\* extension of that format's container.
C25_BestSupportedFormat ==
    \A j \in Jobs :
        Started(j) =>
            /\ jobs[j].formatOk <=> jobs[j].supported # {}
            /\ jobs[j].formatOk =>
                   /\ jobs[j].mimeType \in jobs[j].supported
                   /\ \A m \in jobs[j].supported :
                          Preference(jobs[j].mimeType) <= Preference(m)
            /\ jobs[j].downloads > 0 =>
                   jobs[j].download.ext = ContainerExtension(jobs[j].mimeType)

\* a browser without MP4 recording: the job recorded WebM VP9+Opus and
\* downloaded a .webm file
C25_Witness ==
    \E j \in Jobs :
        /\ jobs[j].supported = {Formats[2], Formats[3]}
        /\ jobs[j].mimeType = Formats[2]
        /\ jobs[j].downloads > 0
        /\ jobs[j].download.ext = "webm"

\* C26: the name of the downloaded file is derived from the title of the
\* video and is a function of the title and the extension only: the title is
\* part of the name, and two exports of the video in the same container get
\* the same name.
C26_NameFromTitle ==
    \A j, k \in Jobs :
        (jobs[j].downloads > 0 /\ jobs[k].downloads > 0) =>
            /\ \E i \in DOMAIN jobs[j].download.text :
                   jobs[j].download.text[i] = videoData.title
            /\ jobs[j].download.ext = jobs[k].download.ext =>
                   jobs[j].download = jobs[k].download

\* C27: in every drawKenBurns call, for the active scene and for the
\* crossfade target, the progress lies in [0, 1] and the scale in [1.0, 1.10].
C27_ProgressInUnitInterval ==
    \A k \in DOMAIN kenBurns.calls :
        LET a == kenBurns.calls[k].args
        IN  /\ FLeq(Whole(0), a.progress) /\ FLeq(a.progress, Whole(1))
            /\ FLeq(Whole(1), a.scale) /\ FLeq(a.scale, Frac(11, 10))

\* C28: the source rectangle of every drawImage call has the aspect ratio
\* of the canvas and lies inside the image.
C28_CropInsideImage ==
    \A k \in DOMAIN kenBurns.calls :
        LET a == kenBurns.calls[k].args
            natural == kenBurns.natural[kenBurns.calls[k].image]
        IN  /\ FDiv(a.focalWidth, a.focalHeight)
                   = Frac(kenBurns.canvas[1], kenBurns.canvas[2])
            /\ FLeq(Whole(0), a.sx)
            /\ FLeq(FAdd(a.sx, a.focalWidth), Whole(natural[1]))
            /\ FLeq(Whole(0), a.sy)
            /\ FLeq(FAdd(a.sy, a.focalHeight), Whole(natural[2]))

\* C29: of scenes with the same startTime the first in input order is the
\* active one: on a list in ascending order, the active scene of a frame is
\* never a scene that has an earlier scene with the same startTime.
C29_FirstDuplicateWins ==
    LET bg == backgroundImages(videoData)
    IN  (Drawn /\ Ascending(bg) /\ frame.scene # 0) =>
            ~\E k \in 1..(frame.scene - 1) : bg[k] = bg[frame.scene]

\* C30: a line without words is the active lyric only before the smaller of
\* its startTime + 3000 and the next line's startTime.
C30_WordlessLineCapped ==
    LET lyrics == sortedLyrics(videoData)
        i == frame.lyric
    IN  (Drawn /\ i # 0 /\ lyrics[i].words = <<>>) =>
            /\ frame.timeMs < lyrics[i].startTime + 3000
            /\ i < Len(lyrics) => frame.timeMs < lyrics[i + 1].startTime

\* C33: once the abort signal of a job is set, no export frame is drawn on
\* its canvas and no frame callback is scheduled for it: a run of
\* renderFrame draws nothing, a run of syncRenderLoop leaves no callback
\* pending, and no step draws on the canvas or makes a callback pending.
C33_AbortStopsFrames ==
    /\ [](\A j \in Jobs :
            jobs[j].aborted =>
                /\ renderFrame(surfaces, j, jobs[j]) = surfaces
                /\ ~syncRenderLoop(jobs[j]).raf)
    /\ [][\A j \in Jobs :
            jobs'[j].aborted =>
                /\ surfaces'[exportCanvas(j)] = surfaces[exportCanvas(j)]
                /\ jobs'[j].raf => jobs[j].raf]_vars

\* a job cancelled while it was recording and drawing frames, whose pending
\* frame callback has run since and scheduled no other
C33_Witness ==
    \E j \in Jobs :
        /\ jobs[j].aborted
        /\ jobs[j].stateAtAbort = "recording"
        /\ jobs[j].play = "settled"
        /\ surfaces[exportCanvas(j)].drawn >= 0
        /\ ~jobs[j].raf

\* C34: the scene list and the lyric list handed to drawFrame are in
\* ascending order of startTime, whatever the order of the props.
C34_TimelinesNormalized ==
    Drawn =>
        /\ Ascending(backgroundImages(videoData))
        /\ LET lyrics == sortedLyrics(videoData)
           IN  \A k \in 1..(Len(lyrics) - 1) :
                   lyrics[k].startTime <= lyrics[k + 1].startTime

\* the export audio of the job is heard: it plays unmuted, straight to the
\* default output or through the audio graph to its destination
Audible(j) ==
    /\ jobs[j].audio = "ready"
    /\ ~jobs[j].paused
    /\ ~jobs[j].muted
    /\ jobs[j].source => (jobs[j].speakers /\ jobs[j].ctx = "open")

\* C35: from its creation to teardown the export audio is muted and not
\* routed to the speakers: it is never heard.
C35_ExportAudioSilent ==
    \A j \in Jobs :
        (jobs[j].audio = "ready" /\ ~jobs[j].paused) =>
            /\ jobs[j].muted
            /\ ~jobs[j].speakers
            /\ ~Audible(j)

\* C36: the recorder of a job is never recording once the abort signal of
\* the job fired or its cleanup ran.
C36_NoCaptureAfterCancel ==
    \A j \in Jobs :
        jobs[j].recorder = "recording" =>
            (~jobs[j].aborted /\ jobs[j].cleanups = 0)

\* C37: a step that runs the cleanup of one job while another job is live
\* leaves isExporting true and the abort controller of the live job in the
\* React state.
C37_TeardownIsLocal ==
    [][\A i \in Jobs : \A k \in Jobs \ {i} :
          (jobs'[i].cleanups > jobs[i].cleanups /\ Live(k)) =>
              (state'.isExporting /\ state'.exportAbortController = k)]_vars

\* the job at the end of its media, before the 'ended' handler or the render
\* loop has run
AtEnd(j) == [jobs[j] EXCEPT !.audio = "ended", !.paused = TRUE]

\* C38: recorder.stop() is called at most once per job, whichever of the
\* 'ended' handler and the render loop runs first at the end of the media,
\* and the stop event downloads at most once; a job that was not cancelled
\* and whose recorder was stopped has, once the stop event is delivered,
\* exactly one download, one 'Export Complete!' and one cleanup.
C38_StopOnce ==
    \A j \in Jobs :
        /\ jobs[j].stops <= 1
        /\ syncRenderLoop(onended(AtEnd(j))).stops <= 1
        /\ onended(syncRenderLoop(AtEnd(j))).stops <= 1
        /\ jobs[j].downloads <= 1
        /\ jobs[j].completes <= 1
        /\ (~jobs[j].aborted /\ jobs[j].stops = 1 /\ ~jobs[j].stopQueued) =>
               /\ jobs[j].downloads = 1
               /\ jobs[j].completes = 1
               /\ jobs[j].cleanups = 1

\* end of media, and both the 'ended' handler and the render loop have run:
\* the loop found the audio ended and scheduled no further frame
C38_Witness ==
    \E j \in Jobs :
        /\ ~jobs[j].aborted
        /\ jobs[j].stops = 1
        /\ jobs[j].play = "settled"
        /\ ~jobs[j].raf
        /\ ~jobs[j].stopQueued
        /\ jobs[j].downloads = 1
        /\ jobs[j].cleanups = 1

\* the Blob type of the container of mime type m
ContainerType(m) == IF m = Formats[1] THEN "video/mp4" ELSE "video/webm"

\* C39: the type of the downloaded Blob is that of the container negotiated
\* for the recorder, and the extension of the file is that container's.
C39_BlobTypeMatches ==
    \A j \in Jobs :
        (jobs[j].downloads > 0 /\ ~jobs[j].aborted) =>
            /\ jobs[j].blobType = ContainerType(jobs[j].mimeType)
            /\ jobs[j].download.ext = ContainerExtension(jobs[j].mimeType)

\* C31: drawFrame throws for no empty or missing field: with the scene list
\* empty or missing no image is drawn, with the lyric list empty or missing
\* no lyric is drawn, and a line whose words are missing or empty is drawn
\* while it is the active line.
C31_NeverThrows ==
    /\ ~malformed.thrown
    /\ Drawn =>
           /\ (malformed.backgroundScenes \/ videoData.backgroundScenes = <<>>)
                  => frame.images = <<>>
           /\ (malformed.syncedLyrics \/ videoData.syncedLyrics = <<>>)
                  => frame.lyric = 0

\* the words of all the lines, in order
RECURSIVE Flatten(_)
Flatten(lines) ==
    IF lines = <<>> THEN <<>> ELSE Head(lines) \o Flatten(Tail(lines))

\* the words of the text that have characters
RECURSIVE NonEmptyWords(_)
NonEmptyWords(text) ==
    IF text = <<>> THEN <<>>
    ELSE IF Head(text) = 0 THEN NonEmptyWords(Tail(text))
    ELSE <<Head(text)>> \o NonEmptyWords(Tail(text))

\* C32: the lines drawn for the active lyric hold the words of the line in
\* their order, none dropped and none twice; a line wider than 85% of the
\* canvas is a single word; and the wrap is greedy: the first word of the
\* next line does not fit on the line before it.
C32_WrapLossless ==
    \A canvas \in wrap.drawnOn :
        LET lines == wrap.lines[canvas]
        IN  /\ NonEmptyWords(Flatten(lines)) = NonEmptyWords(wrap.line)
            /\ \A k \in DOMAIN lines :
                   \/ measureText(canvas, lines[k]) <= maxWidth(canvas)
                   \/ Len(lines[k]) = 1
            /\ \A k \in 1..(Len(lines) - 1) :
                   measureText(canvas, Append(lines[k], lines[k + 1][1]))
                       > maxWidth(canvas)

\* a line wrapped into a line of two words and a line of a single word that
\* is wider than the maximum width
C32_Witness ==
    \E canvas \in wrap.drawnOn :
        LET lines == wrap.lines[canvas]
        IN  /\ Len(lines) >= 2
            /\ \E k \in DOMAIN lines : Len(lines[k]) >= 2
            /\ \E k \in DOMAIN lines :
                   measureText(canvas, lines[k]) > maxWidth(canvas)

====
